---- MODULE Spec2Model ----
(***************************************************************************)
(* Model of sources/configmap-source/configmapsource.go: the configMapSource *)
(* backend (store, source list, handler map), its priority merge            *)
(* (compareUpdate / addOrCreateConf), file registration (AddFile,           *)
(* handleFile, handlePriority), the watch pool and its pump (watchFile,     *)
(* updateFile) and Cleanup.                                                 *)
(***************************************************************************)
EXTENDS Integers, Sequences, FiniteSets, TLC

\* ------------------------------------------------------------------ bounds
\* how many AddFile calls the caller makes
MaxAdds == 2
\* how many times the environment edits the disk
MaxEdits == 1
\* pending filesystem events of the watcher
MaxQueue == 1
\* how many Cleanup calls the caller makes
MaxCleanups == 2
\* width of the priority integers of the model (uint32 in the source); only
\* equality and order of priorities are used by the code
PriorityBits == 3

\* ------------------------------------------------------- program constants
configMapSourcePriority == 4
MaxUint32 == 2 ^ PriorityBits - 1

\* ------------------------------------------------------------ input domains
Keys == {"k1", "k2"}
Values == {"v1", "v2"}
Files == {"/d/a", "/d/b"}
Dirs == {"/d"}
Paths == Dirs \cup Files
\* the regular files of directory /d in the lexical order filepath.Walk uses
ChildSeq == <<"/d/a", "/d/b">>
Priorities == {1, 2, MaxUint32}
NilHandler == "nil"
Handlers == {NilHandler, "custom"}
NilCallback == "nil"
Callbacks == {NilCallback, "cb"}
\* a flat key -> value mapping: what a content handler returns
Mappings == UNION {[S -> Values] : S \in SUBSET Keys}
\* the contents the environment writes to a file
EditContents == {[k \in {} |-> "v1"], [k \in {"k1"} |-> "v1"], [k \in {"k1"} |-> "v2"]}
\* the directory /d at start: with both files, or with /d/a only
InitialDisks ==
    {[f \in S |-> IF f = "/d/a" THEN [k \in {"k1"} |-> "v1"] ELSE [k \in Keys |-> "v2"]] :
        S \in {Files, {"/d/a"}}}
\* the orders in which a Go map over the keys may be iterated
KeyOrders == {<<"k1", "k2">>, <<"k2", "k1">>}

VARIABLES
    Configurations,  \* cmSource.Configurations: key -> ConfigInfo (nil = empty)
    files,           \* cmSource.files: sequence of file{filePath, priority}
    fileHandlers,    \* cmSource.fileHandlers: path -> handler
    watchPool,       \* cmSource.watchPool: "nil" or "wth"
    wth,             \* the watch object: watcher, callback, configMapSource
    watches,         \* the paths the fsnotify watcher watches
    queue,           \* wth.watcher.Events: pending filesystem events
    pump,            \* the watchFile goroutine: "none", "watching", "stopped"
    pumpPc,          \* where the pump is inside updateFile: "idle" or "merging"
    pumpTmp,         \* the pump's locals while it is inside compareUpdate
    cleanupPc,       \* where a Cleanup call is: "idle" or "clearing"
    disk,            \* existing regular file -> its raw content
    hist,            \* the most recent compareUpdate calls (history)
    latest,          \* path -> the mapping of its latest merge (history)
    mergeCount,      \* path -> number of its merges, capped at 2 (history)
    roots,           \* root paths successfully passed to AddFile (history)
    rootArgs,        \* root path -> the priority and handler AddFile took (history)
    parsedBy,        \* file -> the handler of its first load by handleFile (history)
    adj,             \* the last program step was a compareUpdate call (history)
    last,            \* the last operation and what it delivered (history)
    replay,          \* the map a callback registered first builds from its events
    budget           \* calls and edits made so far

vars == <<Configurations, files, fileHandlers, watchPool, wth, watches, queue,
          pump, pumpPc, pumpTmp, cleanupPc, disk, hist, latest, mergeCount,
          roots, rootArgs, parsedBy, adj, last, replay, budget>>

\* ----------------------------------------------------------------- helpers
EmptyMap == [k \in {} |-> "v1"]
NoTmp == [path |-> "", confs |-> EmptyMap, events |-> <<>>, passed |-> FALSE]

SetAt(f, k, v) == [x \in (DOMAIN f) \cup {k} |-> IF x = k THEN v ELSE f[x]]

Event(k, t, v) == [Key |-> k, EventType |-> t, Value |-> v]

EventsFor(events, k) == SelectSeq(events, LAMBDA e : e.Key = k)

\* the concatenation of byKey[k] for the keys of ord that are in S, in order
RECURSIVE ConcatInOrder(_, _, _)
ConcatInOrder(ord, S, byKey) ==
    IF ord = <<>> THEN <<>>
    ELSE (IF Head(ord) \in S THEN byKey[Head(ord)] ELSE <<>>)
         \o ConcatInOrder(Tail(ord), S, byKey)

\* a consumer's map after the events: Create and Update set, Delete removes
RECURSIVE ApplyEvents(_, _)
ApplyEvents(map, events) ==
    IF events = <<>> THEN map
    ELSE ApplyEvents(IF Head(events).EventType = "Delete"
                     THEN [k \in (DOMAIN map) \ {Head(events).Key} |-> map[k]]
                     ELSE SetAt(map, Head(events).Key, Head(events).Value),
                     Tail(events))

NoReplay == [on |-> FALSE, map |-> EmptyMap]

Exists(dsk, p) == p \in Dirs \/ p \in DOMAIN dsk

\* a content handler applied to raw content: the default parser
\* (utils.Convert2JavaProps) reads the key=value lines as they are, the
\* custom handler stands for a handler that reads the same bytes otherwise
\* and returns an error for an empty file
HandlerFails(handle, content) == handle # NilHandler /\ DOMAIN content = {}

Swap(v) == IF v = "v1" THEN "v2" ELSE "v1"
Parse(handle, content) ==
    IF handle = NilHandler THEN content
    ELSE [k \in DOMAIN content |-> Swap(content[k])]

\* --------------------------------------------------------- source registry
isFileSrcExist(fs, filePath) ==
    \E i \in 1..Len(fs) : fs[i].filePath = filePath

\* the priority lookup loops of compareUpdate: the last match wins,
\* math.MaxUint32 when the path is not in the list
PriorityOf(fs, filePath) ==
    LET idx == {i \in 1..Len(fs) : fs[i].filePath = filePath}
    IN IF idx = {} THEN MaxUint32
       ELSE fs[CHOOSE i \in idx : \A j \in idx : j <= i].priority

RECURSIVE handlePriorityLoop(_, _, _)
handlePriorityLoop(fs, filePath, priority) ==
    IF fs = <<>> THEN <<>>
    ELSE (IF Head(fs).filePath = filePath /\ Head(fs).priority = priority
          THEN <<[filePath |-> filePath, priority |-> priority]>>
          ELSE <<>>)
         \o <<Head(fs)>>
         \o handlePriorityLoop(Tail(fs), filePath, priority)

handlePriority(fs, filePath, priority) ==
    LET prioritySet == \E i \in 1..Len(fs) :
                          fs[i].filePath = filePath /\ fs[i].priority = priority
        newFilePriority == handlePriorityLoop(fs, filePath, priority)
    IN IF prioritySet THEN newFilePriority
       ELSE Append(newFilePriority, [filePath |-> filePath, priority |-> priority])

\* ------------------------------------------------------------ merge engine
\* One step of the loop over cmSource.Configurations in compareUpdate: what
\* becomes of one store entry. keep: the entry goes into fileConfs; info: the
\* ConfigInfo after the step; ev: the events appended.
Kept(confInfo, ev) == [keep |-> TRUE, info |-> confInfo, ev |-> ev]

\* faulty variant: the owner's entry is dropped without a Delete event
ownerAbsentSilent(key, confInfo) ==
    [keep |-> FALSE, info |-> confInfo, ev |-> <<>>]

\* case filePath, key absent from newconf
ownerAbsent(key, confInfo) ==
    [keep |-> FALSE, info |-> confInfo,
     ev |-> <<Event(key, "Delete", confInfo.Value)>>]

\* faulty variant: an updated entry is left out of fileConfs
ownerPresentLeftOut(key, confInfo, newConfValue) ==
    IF confInfo.Value = newConfValue
    THEN Kept(confInfo, <<>>)
    ELSE [keep |-> FALSE, info |-> confInfo,
          ev |-> <<Event(key, "Update", newConfValue)>>]

\* case filePath, key present in newconf
ownerPresent(key, confInfo, newConfValue) ==
    IF confInfo.Value = newConfValue
    THEN Kept(confInfo, <<>>)
    ELSE Kept([confInfo EXCEPT !.Value = newConfValue],
              <<Event(key, "Update", newConfValue)>>)

\* faulty variant: the tie branch reports the overwrite
otherTieReported(key, confInfo, newConfValue) ==
    Kept([confInfo EXCEPT !.Value = newConfValue],
         <<Event(key, "Update", newConfValue)>>)

\* default case, key present, priority == filePathPriority
otherTie(key, confInfo, newConfValue) ==
    Kept([confInfo EXCEPT !.Value = newConfValue], <<>>)

\* faulty variant: the higher-priority incoming value is dropped
otherOverrideDropped(key, confInfo, newConfValue) ==
    Kept(confInfo, <<>>)

\* default case, key present, filePathPriority < priority
otherOverride(key, confInfo, newConfValue) ==
    Kept([confInfo EXCEPT !.Value = newConfValue],
         <<Event(key, "Update", newConfValue)>>)

\* default case, key present, filePathPriority > priority
otherYield(key, confInfo, newConfValue) ==
    Kept(confInfo, <<>>)

\* faulty variant: a key absent from newconf is deleted whoever owns it
otherAbsentDeleted(key, confInfo) ==
    [keep |-> FALSE, info |-> confInfo,
     ev |-> <<Event(key, "Delete", confInfo.Value)>>]

\* default case, key absent from newconf
otherAbsent(key, confInfo) ==
    Kept(confInfo, <<>>)

compareUpdateEntry(confs, fs, newconf, filePath, filePathPriority, key) ==
    LET confInfo == confs[key]
        ok == key \in DOMAIN newconf
    IN IF confInfo.FilePath = filePath
       THEN IF ~ok THEN ownerAbsent(key, confInfo)
            ELSE ownerPresent(key, confInfo, newconf[key])
       ELSE IF ok
            THEN LET priority == PriorityOf(fs, confInfo.FilePath)
                 IN IF priority = filePathPriority
                    THEN otherTie(key, confInfo, newconf[key])
                    ELSE IF filePathPriority < priority
                    THEN otherOverride(key, confInfo, newconf[key])
                    ELSE otherYield(key, confInfo, newconf[key])
            ELSE otherAbsent(key, confInfo)

\* addOrCreateConf: every key of newconf that is not in fileConfs is created,
\* owned by filePath; ord is the iteration order of newconf
addOrCreateConf(fileConfs, newconf, events, filePath, ord) ==
    LET created == (DOMAIN newconf) \ (DOMAIN fileConfs)
        creates == [k \in created |-> <<Event(k, "Create", newconf[k])>>]
    IN [confs |-> [k \in (DOMAIN fileConfs) \cup created |->
                     IF k \in created
                     THEN [FilePath |-> filePath, Value |-> newconf[k]]
                     ELSE fileConfs[k]],
        events |-> events \o ConcatInOrder(ord, created, creates)]

\* compareUpdate(newconf, filePath) on store confs and source list fs; ord is
\* the iteration order of the Go maps. passed: the call got past the check
\* filePathPriority == math.MaxUint32; a call that did not returns nil and
\* leaves the store alone.
\* res[k] is what the loop made of store entry k.
compareUpdateLoop(confs, fs, newconf, filePath, k) ==
    compareUpdateEntry(confs, fs, newconf, filePath, PriorityOf(fs, filePath), k)

compareUpdateTail(res, newconf, filePath, ord) ==
    addOrCreateConf([k \in {x \in DOMAIN res : res[x].keep} |-> res[k].info],
                    newconf,
                    ConcatInOrder(ord, DOMAIN res, [k \in DOMAIN res |-> res[k].ev]),
                    filePath, ord)

compareUpdate(confs, fs, newconf, filePath, ord) ==
    IF PriorityOf(fs, filePath) = MaxUint32
    THEN [passed |-> FALSE, confs |-> confs, events |-> <<>>]
    ELSE [passed |-> TRUE] @@
         compareUpdateTail([k \in DOMAIN confs |->
                               compareUpdateLoop(confs, fs, newconf, filePath, k)],
                           newconf, filePath, ord)

\* GetConfigurations: the key -> value snapshot of the store
GetConfigurations(confs) == [k \in DOMAIN confs |-> confs[k].Value]

\* ------------------------------------------------- the state the calls thread
\* The program state an operation works on, with the history it leaves.
\* delivered: the events passed to callback.OnEvent; err: the error the
\* operation returns; event: the kind of the filesystem event the pump handles;
\* failed: the node at which the walk of AddFile stopped with an error.
CurSt ==
    [confs |-> Configurations, files |-> files, handlers |-> fileHandlers,
     watches |-> watches, hist |-> hist, latest |-> latest,
     mergeCount |-> mergeCount, parsedBy |-> parsedBy, adj |-> adj,
     delivered |-> <<>>, err |-> FALSE, event |-> "", failed |-> ""]

\* how many of the latest compareUpdate calls hist keeps
HistLen == Cardinality(Files)

KeepLast(s) == IF Len(s) <= HistLen THEN s ELSE SubSeq(s, Len(s) - HistLen + 1, Len(s))

\* a compareUpdate call on st, and the record of it appended to the history
recordCall(st, r, newconf, filePath) ==
    [res |-> r,
     st |-> [st EXCEPT
               !.confs = r.confs,
               !.hist = KeepLast(Append(@,
                          [path |-> filePath, newconf |-> newconf, files |-> st.files,
                           before |-> st.confs, after |-> r.confs, events |-> r.events,
                           passed |-> r.passed, adjacent |-> st.adj])),
               !.latest = IF r.passed THEN SetAt(@, filePath, newconf) ELSE @,
               !.mergeCount = IF r.passed
                              THEN [@ EXCEPT ![filePath] = IF @ < 2 THEN @ + 1 ELSE 2]
                              ELSE @,
               !.adj = TRUE]]

doCompareUpdate(st, newconf, filePath, ord) ==
    recordCall(st, compareUpdate(st.confs, st.files, newconf, filePath, ord),
               newconf, filePath)

\* the events of call m go to callback.OnEvent
forward(m) == [m.st EXCEPT !.delivered = @ \o m.res.events]

\* wth.AddWatchFile / watcher.Add: fails (and is only logged) when the watcher
\* is closed or the path does not exist
AddWatchFile(ws, watcher, dsk, filePath) ==
    IF watcher = "open" /\ Exists(dsk, filePath) THEN ws \cup {filePath} ELSE ws

\* handleFile(file, priority, handle): parse, register, merge, forward
forwardIf(m, cbOn) == IF cbOn THEN forward(m) ELSE m.st

handleFile(st, name, priority, handle, dsk, ord, cbOn) ==
    IF HandlerFails(handle, dsk[name])
    THEN [st EXCEPT !.failed = name, !.adj = FALSE]
    ELSE forwardIf(doCompareUpdate([st EXCEPT !.files = handlePriority(@, name, priority),
                                              !.parsedBy = IF name \in DOMAIN @ THEN @
                                                           ELSE SetAt(@, name, handle),
                                              !.adj = FALSE],
                                   Parse(handle, dsk[name]), name, ord),
                   cbOn)

\* the nodes filepath.Walk visits from p, in its order
WalkNodes(p, dsk) ==
    IF p \in Dirs
    THEN <<p>> \o SelectSeq(ChildSeq, LAMBDA f : f \in DOMAIN dsk)
    ELSE <<p>>

\* the walk function of AddFile over the nodes left to visit
\* if cmSource.watchPool != nil { cmSource.watchPool.AddWatchFile(path) }
watchIfPool(st, path, dsk, pool, w) ==
    IF pool # "nil"
    THEN [st EXCEPT !.watches = AddWatchFile(@, w.watcher, dsk, path)]
    ELSE st

\* the walk function of AddFile on one node
walkNode(st, path, priority, handle, dsk, ord, pool, w) ==
    IF path \in Dirs
    THEN watchIfPool(st, path, dsk, pool, w)
    ELSE watchIfPool(handleFile(st, path, priority, handle, dsk, ord,
                                pool # "nil" /\ w.callback),
                     path, dsk, pool, w)

RECURSIVE walk(_, _, _, _, _, _, _, _)
walk(st, nodes, priority, handle, dsk, ord, pool, w) ==
    IF nodes = <<>> \/ st.failed # "" THEN st
    ELSE walk(walkNode(st, Head(nodes), priority, handle, dsk, ord, pool, w),
              Tail(nodes), priority, handle, dsk, ord, pool, w)

\* AddFile(p, priority, handle)
AddFile(st, p, priority, handle, dsk, ord, pool, w) ==
    IF ~Exists(dsk, p) THEN [st EXCEPT !.err = TRUE]
    ELSE IF isFileSrcExist(st.files, p) THEN st
    ELSE walk([st EXCEPT !.handlers = SetAt(@, p, handle)],
              WalkNodes(p, dsk), priority, handle, dsk, ord, pool, w)

\* ------------------------------------------------------------------ the pump
\* strings.Contains(s, sub) on the paths of the model
Contains(s, sub) == s = sub \/ (sub \in Dirs /\ s \in Files)

\* the editor-swap suffixes .swx, .swp and ~ that watchFile ignores
SwapNames == {"/d/a.swp", "/d/a.swx", "/d/a~"}
HasSwapSuffix(name) == name \in SwapNames

\* the handler lookup of updateFile for a known path: a missing or nil entry
\* of fileHandlers means utils.Convert2JavaProps
lookupHandler(handlers, name) ==
    IF name \in DOMAIN handlers THEN handlers[name] ELSE NilHandler

\* the priority updateFile infers for an unknown path
inferPriority(fs, name) ==
    LET idx == {i \in 1..Len(fs) : Contains(name, fs[i].filePath)}
    IN IF idx = {} THEN configMapSourcePriority
       ELSE fs[CHOOSE i \in idx : \A j \in idx : j <= i].priority

\* updateFile(wth, event); hp is the entry of fileHandlers the handler loop
\* visits last among those whose path event.Name contains ("" when none)
updateFile(st, name, dsk, ord, hp, pool, w) ==
    IF isFileSrcExist(st.files, name)
    THEN IF name \notin DOMAIN dsk THEN [st EXCEPT !.adj = FALSE]
         ELSE IF HandlerFails(lookupHandler(st.handlers, name), dsk[name])
         THEN [st EXCEPT !.adj = FALSE]
         ELSE forward(doCompareUpdate(st,
                                      Parse(lookupHandler(st.handlers, name), dsk[name]),
                                      name, ord))
    ELSE AddFile([st EXCEPT !.adj = FALSE], name, inferPriority(st.files, name),
                 IF hp = "" THEN NilHandler ELSE st.handlers[hp],
                 dsk, ord, pool, w)

\* faulty variant: a Rename is reconciled like a write
watchFileRenameReloads(st, event, dsk, ord, hp, pool, w) ==
    IF HasSwapSuffix(event.Name) THEN [st EXCEPT !.adj = FALSE]
    ELSE IF event.Op = "Remove" THEN [st EXCEPT !.adj = FALSE]
    ELSE updateFile(st, event.Name, dsk, ord, hp, pool, w)

\* one iteration of the loop of watchFile on a received event
watchFileOnEvent(st, event, dsk, ord, hp, pool, w) ==
    IF HasSwapSuffix(event.Name) THEN [st EXCEPT !.adj = FALSE]
    ELSE IF event.Op = "Remove" THEN [st EXCEPT !.adj = FALSE]
    ELSE IF event.Op = "Rename"
    THEN [st EXCEPT !.adj = FALSE,
                    !.watches = AddWatchFile(@ \ {event.Name}, w.watcher, dsk, event.Name)]
    ELSE updateFile(st, event.Name, dsk, ord, hp, pool, w)

\* startWatchPool: watch every path of the source list, stop at the first
\* path the watcher refuses
RECURSIVE startWatchPool(_, _, _)
startWatchPool(ws, fs, dsk) ==
    IF fs = <<>> THEN ws
    ELSE IF ~Exists(dsk, Head(fs).filePath) THEN ws
    ELSE startWatchPool(ws \cup {Head(fs).filePath}, Tail(fs), dsk)

\* ------------------------------------------------------------------ actions
Init ==
    /\ Configurations = EmptyMap
    /\ files = <<>>
    /\ fileHandlers = EmptyMap
    /\ watchPool = "nil"
    /\ wth = [watcher |-> "none", callback |-> FALSE, configMapSource |-> FALSE]
    /\ watches = {}
    /\ queue = <<>>
    /\ pump = "none"
    /\ pumpPc = "idle"
    /\ pumpTmp = NoTmp
    /\ cleanupPc = "idle"
    /\ disk \in InitialDisks
    /\ hist = <<>>
    /\ latest = EmptyMap
    /\ mergeCount = [f \in Files |-> 0]
    /\ roots = {}
    /\ rootArgs = EmptyMap
    /\ parsedBy = EmptyMap
    /\ adj = FALSE
    /\ replay = NoReplay
    /\ last = [op |-> "new", path |-> "", delivered |-> <<>>, err |-> FALSE,
               again |-> FALSE, event |-> "", failed |-> ""]
    /\ budget = [adds |-> 0, edits |-> 0, cleanups |-> 0]

Sequential == pumpPc = "idle" /\ cleanupPc = "idle"

\* the program state after an operation that left st
Commit(st) ==
    /\ Configurations' = st.confs
    /\ files' = st.files
    /\ fileHandlers' = st.handlers
    /\ watches' = st.watches
    /\ hist' = st.hist
    /\ latest' = st.latest
    /\ mergeCount' = st.mergeCount
    /\ parsedBy' = st.parsedBy
    /\ adj' = st.adj

\* what a consumer that applies each delivered event to a map holds after
\* operation op: it starts when DynamicConfigHandler succeeds on an empty
\* source list and ends with Cleanup, which drops the callback
Replayed(op, st) ==
    IF op = "Cleanup" THEN NoReplay
    ELSE IF op = "DynamicConfigHandler"
    THEN (IF ~st.err /\ st.files = <<>> THEN [on |-> TRUE, map |-> EmptyMap] ELSE replay)
    ELSE IF replay.on THEN [replay EXCEPT !.map = ApplyEvents(@, st.delivered)]
    ELSE replay

Did(op, path, st) ==
    /\ last' = [op |-> op, path |-> path, delivered |-> st.delivered, err |-> st.err,
                again |-> (last.op = op), event |-> st.event, failed |-> st.failed]
    /\ replay' = Replayed(op, st)

\* operation op on path left st
Returned(op, path, st) == Commit(st) /\ Did(op, path, st)

\* the caller calls AddFile(p, priority, handle)
CallAddFile ==
    /\ Sequential
    /\ budget.adds < MaxAdds
    /\ \E p \in Paths, priority \in Priorities, handle \in Handlers, ord \in KeyOrders :
          /\ Returned("AddFile", p,
                      AddFile(CurSt, p, priority, handle, disk, ord, watchPool, wth))
          /\ roots' = IF Exists(disk, p) THEN roots \cup {p} ELSE roots
          /\ rootArgs' = IF Exists(disk, p) /\ ~isFileSrcExist(files, p)
                         THEN SetAt(rootArgs, p, [priority |-> priority, handle |-> handle])
                         ELSE rootArgs
    /\ budget' = [budget EXCEPT !.adds = @ + 1]
    /\ UNCHANGED <<watchPool, wth, queue, pump, pumpPc, pumpTmp, cleanupPc, disk>>

\* the caller calls DynamicConfigHandler(callback), once; the start-up of the
\* pool (startWatchPool) is taken with it
CallDynamicConfigHandler ==
    /\ Sequential
    /\ pump = "none"
    /\ \E callback \in Callbacks :
          IF callback = NilCallback
          THEN /\ Did("DynamicConfigHandler", "", [CurSt EXCEPT !.err = TRUE])
               /\ UNCHANGED <<watchPool, wth, watches, pump>>
          ELSE /\ wth' = [watcher |-> "open", callback |-> TRUE,
                          configMapSource |-> TRUE]
               /\ watchPool' = "wth"
               /\ pump' = "watching"
               /\ watches' = startWatchPool({}, files, disk)
               /\ Did("DynamicConfigHandler", "", CurSt)
    /\ adj' = FALSE
    /\ UNCHANGED <<Configurations, files, fileHandlers, queue, pumpPc, pumpTmp,
                   cleanupPc, disk, hist, latest, mergeCount, roots, rootArgs, parsedBy, budget>>

\* faulty variant: Cleanup without the reset of the source list
CallCleanupKeepsFiles ==
    /\ Sequential
    /\ budget.cleanups < MaxCleanups
    /\ wth' = IF watchPool # "nil"
              THEN [watcher |-> "closed", callback |-> FALSE,
                    configMapSource |-> FALSE]
              ELSE wth
    /\ watches' = IF watchPool # "nil" THEN {} ELSE watches
    /\ queue' = IF watchPool # "nil" THEN <<>> ELSE queue
    /\ watchPool' = "nil"
    /\ Configurations' = EmptyMap
    /\ latest' = EmptyMap
    /\ mergeCount' = [f \in Files |-> 0]
    /\ roots' = {}
    /\ rootArgs' = EmptyMap
    /\ parsedBy' = EmptyMap
    /\ adj' = FALSE
    /\ Did("Cleanup", "", CurSt)
    /\ budget' = [budget EXCEPT !.cleanups = @ + 1]
    /\ UNCHANGED <<files, fileHandlers, pump, pumpPc, pumpTmp, cleanupPc, disk, hist>>

\* the whole of Cleanup
CallCleanup ==
    /\ Sequential
    /\ budget.cleanups < MaxCleanups
    /\ wth' = IF watchPool # "nil"
              THEN [watcher |-> "closed", callback |-> FALSE,
                    configMapSource |-> FALSE]
              ELSE wth
    /\ watches' = IF watchPool # "nil" THEN {} ELSE watches
    /\ queue' = IF watchPool # "nil" THEN <<>> ELSE queue
    /\ watchPool' = "nil"
    /\ Configurations' = EmptyMap
    /\ files' = <<>>
    /\ latest' = EmptyMap
    /\ mergeCount' = [f \in Files |-> 0]
    /\ roots' = {}
    /\ rootArgs' = EmptyMap
    /\ parsedBy' = EmptyMap
    /\ adj' = FALSE
    /\ Did("Cleanup", "", CurSt)
    /\ budget' = [budget EXCEPT !.cleanups = @ + 1]
    /\ UNCHANGED <<fileHandlers, pump, pumpPc, pumpTmp, cleanupPc, disk, hist>>

\* the event the notifier raises for an edit of regular file f
Notify(f, op) ==
    IF wth.watcher = "open" /\ (f \in watches \/ "/d" \in watches)
    THEN <<[Name |-> f, Op |-> op]>>
    ELSE <<>>

\* the environment writes content to f, creating it when it does not exist
WriteFile ==
    /\ budget.edits < MaxEdits
    /\ \E f \in Files, content \in EditContents :
          LET ev == IF f \in DOMAIN disk THEN Notify(f, "Write")
                    ELSE IF wth.watcher = "open" /\ "/d" \in watches
                    THEN <<[Name |-> f, Op |-> "Create"]>>
                    ELSE <<>>
          IN /\ Len(queue) + Len(ev) <= MaxQueue
             /\ disk' = SetAt(disk, f, content)
             /\ queue' = queue \o ev
    /\ budget' = [budget EXCEPT !.edits = @ + 1]
    /\ UNCHANGED <<Configurations, files, fileHandlers, watchPool, wth, watches,
                   pump, pumpPc, pumpTmp, cleanupPc, hist, latest, mergeCount,
                   roots, rootArgs, parsedBy, adj, last, replay>>

\* the environment removes f; the notifier drops the watch of a removed file
RemoveFile ==
    /\ budget.edits < MaxEdits
    /\ \E f \in DOMAIN disk :
          LET ev == Notify(f, "Remove")
          IN /\ Len(queue) + Len(ev) <= MaxQueue
             /\ disk' = [g \in (DOMAIN disk) \ {f} |-> disk[g]]
             /\ queue' = queue \o ev
             /\ watches' = watches \ {f}
    /\ budget' = [budget EXCEPT !.edits = @ + 1]
    /\ UNCHANGED <<Configurations, files, fileHandlers, watchPool, wth,
                   pump, pumpPc, pumpTmp, cleanupPc, hist, latest, mergeCount,
                   roots, rootArgs, parsedBy, adj, last, replay>>

\* the environment renames f away; when stays, another file of the same
\* content is moved to the path of f at once
RenameFile ==
    /\ budget.edits < MaxEdits
    /\ \E f \in DOMAIN disk, stays \in BOOLEAN :
          LET ev == Notify(f, "Rename")
          IN /\ Len(queue) + Len(ev) <= MaxQueue
             /\ disk' = IF stays THEN disk ELSE [g \in (DOMAIN disk) \ {f} |-> disk[g]]
             /\ queue' = queue \o ev
    /\ budget' = [budget EXCEPT !.edits = @ + 1]
    /\ UNCHANGED <<Configurations, files, fileHandlers, watchPool, wth, watches,
                   pump, pumpPc, pumpTmp, cleanupPc, hist, latest, mergeCount,
                   roots, rootArgs, parsedBy, adj, last, replay>>

\* an editor writes its swap file beside /d/a in the watched directory; the
\* swap file is gone again before anything reads the directory
SwapFileWrite ==
    /\ budget.edits < MaxEdits
    /\ wth.watcher = "open"
    /\ "/d" \in watches
    /\ Len(queue) < MaxQueue
    /\ \E name \in SwapNames : queue' = Append(queue, [Name |-> name, Op |-> "Write"])
    /\ budget' = [budget EXCEPT !.edits = @ + 1]
    /\ UNCHANGED <<Configurations, files, fileHandlers, watchPool, wth, watches,
                   pump, pumpPc, pumpTmp, cleanupPc, disk, hist, latest, mergeCount,
                   roots, rootArgs, parsedBy, adj, last, replay>>

\* the handler entries updateFile may end on for an unknown path
HandlerPicks(name) ==
    LET matching == {q \in DOMAIN fileHandlers : Contains(name, q)}
    IN IF matching = {} THEN {""} ELSE matching

\* faulty variant: events are handled whether or not the pump has returned
watchFileEventAfterReturn ==
    /\ Sequential
    /\ wth.watcher = "open"
    /\ queue # <<>>
    /\ \E ord \in KeyOrders, hp \in HandlerPicks(Head(queue).Name) :
          Returned("watchFile", Head(queue).Name,
                   watchFileOnEvent([CurSt EXCEPT !.event = Head(queue).Op],
                                    Head(queue), disk, ord, hp, watchPool, wth))
    /\ queue' = Tail(queue)
    /\ UNCHANGED <<watchPool, wth, pump, pumpPc, pumpTmp, cleanupPc, disk, roots, rootArgs,
                   budget>>

\* the pump receives the next event and handles it to the end
watchFileEvent ==
    /\ Sequential
    /\ pump = "watching"
    /\ wth.watcher = "open"
    /\ queue # <<>>
    /\ \E ord \in KeyOrders, hp \in HandlerPicks(Head(queue).Name) :
          Returned("watchFile", Head(queue).Name,
                   watchFileOnEvent([CurSt EXCEPT !.event = Head(queue).Op],
                                    Head(queue), disk, ord, hp, watchPool, wth))
    /\ queue' = Tail(queue)
    /\ UNCHANGED <<watchPool, wth, pump, pumpPc, pumpTmp, cleanupPc, disk, roots, rootArgs,
                   budget>>

\* the pump receives from the closed event channel and returns
watchFileClosed ==
    /\ Sequential
    /\ pump = "watching"
    /\ wth.watcher = "closed"
    /\ pump' = "stopped"
    /\ UNCHANGED <<Configurations, files, fileHandlers, watchPool, wth, watches,
                   queue, pumpPc, pumpTmp, cleanupPc, disk, hist, latest,
                   mergeCount, roots, rootArgs, parsedBy, adj, last, replay, budget>>

\* the pump receives a notifier error and returns
watchFileError ==
    /\ Sequential
    /\ pump = "watching"
    /\ wth.watcher = "open"
    /\ pump' = "stopped"
    /\ UNCHANGED <<Configurations, files, fileHandlers, watchPool, wth, watches,
                   queue, pumpPc, pumpTmp, cleanupPc, disk, hist, latest,
                   mergeCount, roots, rootArgs, parsedBy, adj, last, replay, budget>>

\* ------------------------------------------- the steps that may interleave
\* The store while compareUpdate is in its loop: the values are written in
\* place (confInfo.Value = ...), the deletions and creations are only in
\* fileConfs until cmSource.Configurations is assigned.
inPlace(confs, fs, newconf, filePath) ==
    [k \in DOMAIN confs |->
        compareUpdateEntry(confs, fs, newconf, filePath,
                           PriorityOf(fs, filePath), k).info]

\* the pump is inside call m of compareUpdate(newConf, name), before the
\* assignment of cmSource.Configurations
InLoop(name, newConf, m) ==
    /\ Configurations' = IF m.res.passed
                         THEN inPlace(Configurations, files, newConf, name)
                         ELSE Configurations
    /\ pumpTmp' = [path |-> name, confs |-> m.res.confs,
                   events |-> m.res.events, passed |-> m.res.passed]
    /\ hist' = m.st.hist
    /\ latest' = m.st.latest
    /\ mergeCount' = m.st.mergeCount
    /\ adj' = m.st.adj

\* the pump takes a write or create event of a known file, reads and parses
\* the file, and runs compareUpdate under cmSource.Lock up to the call of
\* addOrCreateConf
compareUpdateBegin ==
    /\ pump = "watching"
    /\ pumpPc = "idle"
    /\ wth.watcher = "open"
    /\ queue # <<>>
    /\ LET event == Head(queue)
       IN /\ ~HasSwapSuffix(event.Name)
          /\ event.Op \in {"Write", "Create"}
          /\ isFileSrcExist(files, event.Name)
          /\ event.Name \in DOMAIN disk
          /\ ~HandlerFails(lookupHandler(fileHandlers, event.Name), disk[event.Name])
          /\ \E ord \in KeyOrders :
                InLoop(event.Name,
                       Parse(lookupHandler(fileHandlers, event.Name), disk[event.Name]),
                       doCompareUpdate(CurSt,
                                       Parse(lookupHandler(fileHandlers, event.Name),
                                             disk[event.Name]),
                                       event.Name, ord))
    /\ queue' = Tail(queue)
    /\ pumpPc' = "merging"
    /\ UNCHANGED <<files, fileHandlers, watchPool, wth, watches, pump, cleanupPc,
                   disk, roots, rootArgs, parsedBy, last, replay, budget>>

\* the pump assigns cmSource.Configurations, unlocks, and forwards the events
\* to wth.callback; a nil callback makes the first OnEvent call panic
compareUpdateEnd ==
    /\ pumpPc = "merging"
    /\ Configurations' = IF pumpTmp.passed THEN pumpTmp.confs ELSE Configurations
    /\ IF pumpTmp.events # <<>> /\ ~wth.callback
       THEN /\ pump' = "panicked"
            /\ Did("watchFile", pumpTmp.path, [CurSt EXCEPT !.err = TRUE])
       ELSE /\ pump' = pump
            /\ Did("watchFile", pumpTmp.path,
                   [CurSt EXCEPT !.delivered = pumpTmp.events])
    /\ pumpPc' = "idle"
    /\ pumpTmp' = NoTmp
    /\ UNCHANGED <<files, fileHandlers, watchPool, wth, watches, queue, cleanupPc,
                   disk, hist, latest, mergeCount, roots, rootArgs, parsedBy, adj, budget>>

\* Cleanup up to cmSource.Configurations = nil, under fileLock only
CleanupBegin ==
    /\ cleanupPc = "idle"
    /\ budget.cleanups < MaxCleanups
    /\ wth' = IF watchPool # "nil"
              THEN [watcher |-> "closed", callback |-> FALSE,
                    configMapSource |-> FALSE]
              ELSE wth
    /\ watches' = IF watchPool # "nil" THEN {} ELSE watches
    /\ queue' = IF watchPool # "nil" THEN <<>> ELSE queue
    /\ watchPool' = "nil"
    /\ Configurations' = EmptyMap
    /\ cleanupPc' = "clearing"
    /\ adj' = FALSE
    /\ budget' = [budget EXCEPT !.cleanups = @ + 1]
    /\ UNCHANGED <<files, fileHandlers, pump, pumpPc, pumpTmp, disk, hist, latest,
                   mergeCount, roots, rootArgs, parsedBy, last, replay>>

\* Cleanup from cmSource.files = make([]file, 0) to its return
CleanupEnd ==
    /\ cleanupPc = "clearing"
    /\ files' = <<>>
    /\ latest' = EmptyMap
    /\ mergeCount' = [f \in Files |-> 0]
    /\ roots' = {}
    /\ rootArgs' = EmptyMap
    /\ parsedBy' = EmptyMap
    /\ cleanupPc' = "idle"
    /\ Did("Cleanup", "", CurSt)
    /\ UNCHANGED <<Configurations, fileHandlers, watchPool, wth, watches, queue,
                   pump, pumpPc, pumpTmp, disk, hist, adj, budget>>

Next ==
    \/ CallAddFile
    \/ CallDynamicConfigHandler
    \/ CallCleanup
    \/ WriteFile
    \/ RemoveFile
    \/ RenameFile
    \/ SwapFileWrite
    \/ watchFileEvent
    \/ watchFileClosed
    \/ watchFileError

Spec == Init /\ [][Next]_vars

\* the operations with the pump's merge and Cleanup taken in two steps each
ConcNext ==
    \/ CallAddFile
    \/ CallDynamicConfigHandler
    \/ WriteFile
    \/ RemoveFile
    \/ RenameFile
    \/ SwapFileWrite
    \/ watchFileEvent
    \/ watchFileClosed
    \/ watchFileError
    \/ compareUpdateBegin
    \/ compareUpdateEnd
    \/ CleanupBegin
    \/ CleanupEnd

ConcSpec == Init /\ [][ConcNext]_vars

\* the goroutines of the pump and of a Cleanup call are scheduled again and
\* again: a step of theirs that stays possible is taken
FairConcSpec ==
    /\ ConcSpec
    /\ WF_vars(watchFileClosed)
    /\ WF_vars(compareUpdateEnd)
    /\ WF_vars(CleanupEnd)

\* ------------------------------------------------------------------- claims
\* The path is a source as compareUpdate sees it: in the list with a priority
\* other than math.MaxUint32.
Registered(fs, filePath) == PriorityOf(fs, filePath) # MaxUint32

\* C1: for every key that the latest merged mapping of some registered source
\* defines, the store holds the key with the value of a source of numerically
\* lowest priority among the sources whose latest mapping defines it.
C1_LowestPrioritySupplierWins ==
    \A k \in Keys :
        LET suppliers == {q \in DOMAIN latest :
                            Registered(files, q) /\ k \in DOMAIN latest[q]}
        IN suppliers # {} =>
              /\ k \in DOMAIN Configurations
              /\ \E q \in suppliers :
                    /\ \A r \in suppliers : PriorityOf(files, q) <= PriorityOf(files, r)
                    /\ Configurations[k].Value = latest[q][k]

\* The two calls of hist are the only merges so far, one for each of two
\* sources of different priority, and both mappings define k.
TwoSourcesMergedOnce(k) ==
    /\ Len(hist) = 2
    /\ hist[1].passed /\ hist[2].passed
    /\ hist[1].path # hist[2].path
    /\ mergeCount = [f \in Files |-> IF f \in {hist[1].path, hist[2].path} THEN 1 ELSE 0]
    /\ k \in DOMAIN hist[1].newconf /\ k \in DOMAIN hist[2].newconf
    /\ PriorityOf(hist[2].files, hist[1].path) # PriorityOf(hist[2].files, hist[2].path)

FirstHasPrecedence ==
    PriorityOf(hist[2].files, hist[1].path) < PriorityOf(hist[2].files, hist[2].path)

C2_WitnessOtherOrder ==
    \E k \in Keys :
        /\ TwoSourcesMergedOnce(k)
        /\ FirstHasPrecedence
        /\ hist[1].newconf[k] # hist[2].newconf[k]

\* C3: a compareUpdate call that directly follows a call with the same mapping
\* and the same source returns no event and leaves the store as it was.
C3_MergeIdempotent ==
    \A i \in 2..Len(hist) :
        (/\ hist[i].adjacent
         /\ hist[i].path = hist[i - 1].path
         /\ hist[i].newconf = hist[i - 1].newconf)
        => /\ hist[i].events = <<>>
           /\ hist[i].after = hist[i].before

\* merge m found key k in the store under another source's ownership
OwnedByOther(m, k) ==
    /\ k \in DOMAIN m.before
    /\ m.before[k].FilePath # m.path

C6_NonOwnerAbsence ==
    \A i \in DOMAIN hist, k \in Keys :
        LET m == hist[i]
        IN (OwnedByOther(m, k) /\ k \notin DOMAIN m.newconf)
           => /\ k \in DOMAIN m.after
              /\ m.after[k] = m.before[k]
              /\ EventsFor(m.events, k) = <<>>

C6_Witness ==
    \E i \in DOMAIN hist, k \in Keys :
        LET m == hist[i]
        IN /\ m.passed
           /\ OwnedByOther(m, k)
           /\ k \notin DOMAIN m.newconf
           /\ m.events # <<>>

\* C7: an AddFile call for a root path that an earlier AddFile already added
\* leaves the store, the source list and the watch set unchanged and delivers
\* no event.
C7_ReAddIsNoOp ==
    [][(budget.adds' = budget.adds + 1 /\ last'.path \in roots)
       => /\ Configurations' = Configurations
          /\ files' = files
          /\ watches' = watches
          /\ last'.delivered = <<>>]_vars

\* C8: the source list holds at most one entry per file path.
C8_SourceListUnique ==
    \A i, j \in DOMAIN files : files[i].filePath = files[j].filePath => i = j

\* C9: a merge and a Cleanup are never inside their accesses of the store and
\* the source list at the same time, and a Cleanup never returns with a
\* non-empty store.
C9_MergeExcludesCleanup ==
    /\ [](~(pumpPc = "merging" /\ cleanupPc = "clearing"))
    /\ [][(cleanupPc = "clearing" /\ cleanupPc' = "idle")
          => DOMAIN Configurations' = {}]_vars

\* C10: after a Cleanup the watcher is closed, the watch pool reference is
\* dropped and the store and the source list are empty; a Cleanup that follows
\* a Cleanup returns without error and changes nothing.
C10_CleanupTeardown ==
    /\ [](last.op = "Cleanup" =>
            /\ wth.watcher # "open"
            /\ watchPool = "nil"
            /\ DOMAIN Configurations = {}
            /\ files = <<>>
            /\ ~last.err)
    /\ [][(last.op = "Cleanup" /\ budget.cleanups' = budget.cleanups + 1)
          => UNCHANGED <<Configurations, files, fileHandlers, watchPool, wth,
                         watches, queue, pump>>]_vars

C10_Witness ==
    /\ last.op = "Cleanup"
    /\ last.again
    /\ wth.watcher = "closed"
    /\ hist # <<>>

\* this step is the pump taking the event at the head of the queue and
\* handling it to the end
PumpHandled == queue # <<>> /\ queue' = Tail(queue) /\ last'.op = "watchFile"

\* the event at the head of the queue is a create or write of an existing
\* file under /d that is not in the source list, and /d was added as a root
NewFileInAddedDir ==
    /\ queue # <<>>
    /\ Head(queue).Op \in {"Create", "Write"}
    /\ Head(queue).Name \in DOMAIN disk
    /\ ~isFileSrcExist(files, Head(queue).Name)
    /\ "/d" \in DOMAIN rootArgs

\* C11: when the pump handles a create or write event of a file that is not
\* yet a source and lies in a directory added with AddFile(D, P, H), the file
\* becomes a source of priority P, is parsed with H, and a Create for each of
\* its keys that the store did not hold is delivered to the callback.
C11_NewFileInherits ==
    [][(PumpHandled /\ NewFileInAddedDir)
       => LET f == Head(queue).Name
              m == hist'[Len(hist')]
          IN /\ isFileSrcExist(files', f)
             /\ PriorityOf(files', f) = rootArgs["/d"].priority
             /\ hist' # <<>>
             /\ m.path = f
             /\ m.newconf = Parse(rootArgs["/d"].handle, disk[f])
             /\ \A k \in DOMAIN m.newconf :
                   k \notin DOMAIN Configurations =>
                      EventsFor(last'.delivered, k) = <<Event(k, "Create", m.newconf[k])>>]_vars

\* the paths AddFile(p) visited that still exist: p itself and, for a
\* directory, the files under it that the walk registered
Visited(p) ==
    {n \in {WalkNodes(p, disk)[i] : i \in 1..Len(WalkNodes(p, disk))} :
        n = p \/ isFileSrcExist(files', n)}

\* this step is a DynamicConfigHandler call that succeeds, start-up included
HandlerStarted == watchPool = "nil" /\ watchPool' = "wth"

\* this step is an AddFile call that walks p while the watcher is open
WalkedWhileWatching ==
    /\ budget.adds' = budget.adds + 1
    /\ ~last'.err
    /\ ~isFileSrcExist(files, last'.path)
    /\ last'.failed = ""
    /\ wth.watcher = "open"

\* C12: when DynamicConfigHandler has started after AddFile(p), or AddFile(p)
\* has walked p after DynamicConfigHandler, the watch set holds p and every
\* directory and regular file under p that the walk visited.
C12_WatchCoverage ==
    /\ [][HandlerStarted => \A p \in roots : Exists(disk, p) => Visited(p) \subseteq watches']_vars
    /\ [][WalkedWhileWatching => Visited(last'.path) \subseteq watches']_vars

\* the event at the head of the queue is one that watchFile filters out
Filtered ==
    /\ queue # <<>>
    /\ \/ HasSwapSuffix(Head(queue).Name)
       \/ Head(queue).Op \in {"Remove", "Rename"}

\* the watch set after the pump handled a Rename of path n
AfterRename(n) == IF Exists(disk, n) THEN watches \cup {n} ELSE watches \ {n}

\* C13: when the pump handles an event of a swap-suffix path, a Remove or a
\* Rename, the store and the source list stay as they were, no merge runs and
\* nothing is delivered to the callback; only a Rename changes the watch set:
\* the path is unwatched, and watched again only when it still exists.
C13_FilteredEvents ==
    [][(PumpHandled /\ Filtered)
       => /\ Configurations' = Configurations
          /\ files' = files
          /\ hist' = hist
          /\ last'.delivered = <<>>
          /\ watches' = IF ~HasSwapSuffix(Head(queue).Name) /\ Head(queue).Op = "Rename"
                        THEN AfterRename(Head(queue).Name)
                        ELSE watches]_vars

\* the pump has handled a Rename of a path that no longer exists, and a merge
\* had run before
C13_Witness ==
    /\ last.op = "watchFile"
    /\ last.event = "Rename"
    /\ last.path \in Files
    /\ last.path \notin DOMAIN disk
    /\ last.path \notin watches
    /\ isFileSrcExist(files, last.path)
    /\ "/d" \notin watches
    /\ hist # <<>>
    /\ queue = <<>>
    /\ budget.edits = 1

\* this step is an AddFile call whose walk stopped with an error at a node
WalkFailed == budget.adds' = budget.adds + 1 /\ last'.failed # ""

\* the nodes of the walk of p before node n
NodesBefore(p, n) ==
    {WalkNodes(p, disk)[i] : i \in {j \in 1..Len(WalkNodes(p, disk)) :
        \E l \in (j + 1)..Len(WalkNodes(p, disk)) : WalkNodes(p, disk)[l] = n}}

\* C14: when the walk of AddFile stops at a file whose handler returns an
\* error, AddFile returns an error, the files visited before that node are
\* merged and registered, and the failing file gains no source-list entry and
\* no store entry.
C14_LoadFailureReported ==
    [][WalkFailed
       => /\ last'.err
          /\ \A n \in NodesBefore(last'.path, last'.failed) \cap Files :
                /\ isFileSrcExist(files', n)
                /\ Registered(files', n) =>
                      latest'[n] = Parse(rootArgs'[last'.path].handle, disk[n])
          /\ ~isFileSrcExist(files, last'.failed)
                => /\ ~isFileSrcExist(files', last'.failed)
                   /\ \A k \in DOMAIN Configurations' :
                         Configurations'[k].FilePath # last'.failed]_vars

\* every store entry is owned by a path of the source list
OwnersRegistered ==
    \A k \in DOMAIN Configurations : isFileSrcExist(files, Configurations[k].FilePath)

\* C15: every store entry's owner is in the source list, and a merge whose
\* source overrides a key owned by another source of equal or numerically
\* higher priority leaves the entry owned by the merging source.
C15_OwnershipFollowsSupplier ==
    /\ OwnersRegistered
    /\ \A i \in DOMAIN hist, k \in Keys :
          LET m == hist[i]
          IN (/\ m.passed
              /\ OwnedByOther(m, k)
              /\ k \in DOMAIN m.newconf
              /\ PriorityOf(m.files, m.path) <= PriorityOf(m.files, m.before[k].FilePath))
             => /\ k \in DOMAIN m.after
                /\ m.after[k].FilePath = m.path

\* the event at the head of the queue is a write or create of an existing
\* file of the source list
ReloadOfKnownFile ==
    /\ queue # <<>>
    /\ Head(queue).Op \in {"Write", "Create"}
    /\ Head(queue).Name \in DOMAIN disk
    /\ isFileSrcExist(files, Head(queue).Name)
    /\ Head(queue).Name \in DOMAIN parsedBy

\* C16: when the pump handles a write event of a registered file, the file
\* is parsed with the handler of its initial load: the merge gets the mapping
\* that handler makes of the content, or no merge runs when that handler fails.
C16_HandlerConsistency ==
    [][(PumpHandled /\ ReloadOfKnownFile)
       => LET f == Head(queue).Name
          IN IF HandlerFails(parsedBy[f], disk[f])
             THEN hist' = hist
             ELSE /\ hist' # <<>>
                  /\ hist'[Len(hist')].path = f
                  /\ hist'[Len(hist')].newconf = Parse(parsedBy[f], disk[f])]_vars

\* C17: the pump never fails on the callback or back-reference that Cleanup
\* set to nil; once the watcher is closed under a watching pump, the pump
\* eventually stops; and with the watcher closed the pump starts handling no
\* further event.
C17_CancellationLiveness ==
    /\ [](pump # "panicked")
    /\ (pump = "watching" /\ wth.watcher = "closed") ~> (pump = "stopped")
    /\ [][(wth.watcher = "closed" /\ pumpPc = "idle")
          => (pumpPc' = "idle" /\ (last'.op = "watchFile" => last' = last))]_vars

\* C18: once the pump has returned it stays returned, it handles no event
\* that is or comes to be in the queue, and the store, the merge history and
\* the watch set change only through calls of the caller.
C18_ErrorIsTerminal ==
    [][pump = "stopped"
       => /\ pump' = "stopped"
          /\ ~PumpHandled
          /\ (Configurations' # Configurations \/ hist' # hist \/ ~(watches' \subseteq watches))
                => (budget.adds' = budget.adds + 1 \/ budget.cleanups' = budget.cleanups + 1)]_vars

\* the pump returned on a notifier error, and a write event of a registered
\* file whose content differs from its latest merge waits in the queue
C18_Witness ==
    /\ pump = "stopped"
    /\ wth.watcher = "open"
    /\ queue # <<>>
    /\ Head(queue).Op = "Write"
    /\ isFileSrcExist(files, Head(queue).Name)
    /\ Head(queue).Name \in DOMAIN latest
    /\ latest[Head(queue).Name] # disk[Head(queue).Name]

\* C19: the event list of one compareUpdate call holds at most one event for
\* each key.
C19_OneEventPerKey ==
    \A i \in DOMAIN hist, k \in Keys : Len(EventsFor(hist[i].events, k)) <= 1

\* one merge that reports an Update of one key and a Delete of another
C19_Witness ==
    \E i \in DOMAIN hist :
        /\ hist[i].passed
        /\ \E e \in {hist[i].events[j] : j \in DOMAIN hist[i].events} :
              e.EventType = "Update"
        /\ \E e \in {hist[i].events[j] : j \in DOMAIN hist[i].events} :
              e.EventType = "Delete"

====
